---- MODULE Spec2Model ----
(***************************************************************************)
(* Model of src/main.py: a Streamlit page that loads a CSV of fitness      *)
(* measurements (load_data), cleans it, correlates every numeric column    *)
(* with the body-fat column and shows the ranking, a scatter plot and a    *)
(* heatmap.  One run of the script is one PageLoad action.                 *)
(*                                                                         *)
(* Column names are written in ASCII; the source uses Korean names:        *)
(*   body_fat = '체지방율', age = '나이', height = '신장', weight = '체중' *)
(*   measurement_round = '측정회차', sex_code = '성별구분코드'.            *)
(*                                                                         *)
(* Pearson coefficients are kept exact: a coefficient r is the record      *)
(* [def, sgn, num, den] with |r|^2 = num/den, so ties and order are        *)
(* decided exactly (pandas computes in float64).                           *)
(***************************************************************************)
EXTENDS Integers, Sequences, FiniteSets, TLC

VARIABLES file, tie, cache, data, outcome, shown, fat_corr, fat_corr_abs,
          highest, parsed, firstData, firstRanking

vars == <<file, tie, cache, data, outcome, shown, fat_corr, fat_corr_abs,
          highest, parsed, firstData, firstRanking>>

-----------------------------------------------------------------------------
(* Program constants                                                       *)

\* the target column of load_data and of the ranking
TARGET == "body_fat"

\* the allow-list of line 37
KEEP_COLS == {"age", "height", "weight"}

\* line 37: a column with fewer distinct values is a key/code column
MinUnique == 10

\* line 41: the open range of plausible body-fat values
FatLow == 0

FatHigh == 50

\* line 51
file_name == "fitness data.xlsx - KS_NFA_FTNESS_MESURE_ITEM_MESUR.csv"

-----------------------------------------------------------------------------
(* Bounds of the model                                                     *)

\* the largest number of data rows of an input file
MaxRows == 11

-----------------------------------------------------------------------------
(* Cells, files and data frames                                            *)

Num(v) == [k |-> "num", v |-> v]

NaN == [k |-> "nan", v |-> 0]

Str == [k |-> "str", v |-> 0]

Range(s) == {s[i] : i \in DOMAIN s}

RECURSIVE SumSeq(_)
SumSeq(s) == IF s = <<>> THEN 0 ELSE Head(s) + SumSeq(Tail(s))

Dot(s, t) == SumSeq([i \in DOMAIN s |-> s[i] * t[i]])

Abs(a) == IF a < 0 THEN -a ELSE a

Sign(a) == IF a < 0 THEN -1 ELSE IF a = 0 THEN 0 ELSE 1

\* pd.read_csv: the header, the rows, and a dtype per column inferred from the
\* whole file: a column holding any text is "object", otherwise "number"
\* (missing cells are NaN in either).
read_csv(f) ==
    [columns |-> f.header,
     dtypes  |-> [c \in Range(f.header) |->
                    IF \E i \in DOMAIN f.rows : f.rows[i][c].k = "str"
                    THEN "object" ELSE "number"],
     rows    |-> f.rows]

\* mutant: a dropna that forgets subset=: drops a row with any missing cell
dropna_any(df, c) ==
    [df EXCEPT !.rows =
        SelectSeq(df.rows, LAMBDA r : \A k \in DOMAIN r : r[k].k # "nan")]

\* df.dropna(subset=[c]): the rows whose cell in column c is not missing
dropna(df, c) ==
    [df EXCEPT !.rows = SelectSeq(df.rows, LAMBDA r : r[c].k # "nan")]

\* the frame restricted to the columns cols (a subsequence of df.columns)
Project(df, cols) ==
    [columns |-> cols,
     dtypes  |-> [c \in Range(cols) |-> df.dtypes[c]],
     rows    |-> [i \in DOMAIN df.rows |-> [c \in Range(cols) |-> df.rows[i][c]]]]

\* df.select_dtypes(include=np.number)
select_dtypes(df) ==
    Project(df, SelectSeq(df.columns, LAMBDA c : df.dtypes[c] = "number"))

\* len(df[col].unique()): NaN counts as one value
nunique(df, c) == Cardinality({df.rows[i][c] : i \in DOMAIN df.rows})

\* mutant: line 37 without the allow-list
cols_to_drop_all(df, numeric_df) ==
    SelectSeq(numeric_df.columns, LAMBDA c : nunique(df, c) < MinUnique)

\* line 37
cols_to_drop(df, numeric_df) ==
    SelectSeq(numeric_df.columns,
              LAMBDA c : nunique(df, c) < MinUnique /\ ~(c \in KEEP_COLS))

\* numeric_df.drop(columns=cols, errors='ignore')
drop(df, cols) ==
    Project(df, SelectSeq(df.columns, LAMBDA c : ~(c \in Range(cols))))

\* mutant: line 41 with the bounds included
InRange_closed(cell) == cell.k = "num" /\ cell.v >= FatLow /\ cell.v <= FatHigh

\* line 41: (v > 0) & (v < 50); a comparison with NaN is False
InRange(cell) == cell.k = "num" /\ cell.v > FatLow /\ cell.v < FatHigh

NoFrame == [columns |-> <<>>, dtypes |-> <<>>, rows |-> <<>>]

Raise(e) == [exc |-> e, df |-> NoFrame]

\* load_data, lines 18-43, without the cache of line 17
load_data(f) ==
    IF f.kind = "absent" THEN Raise("FileNotFoundError")
    ELSE IF f.kind = "malformed" THEN Raise("ParserError")
    ELSE LET df0 == read_csv(f) IN
         IF ~(TARGET \in Range(df0.columns)) THEN Raise("KeyError")
         ELSE LET df         == dropna(df0, TARGET)
                  numeric_df == select_dtypes(df)
                  kept       == drop(numeric_df, cols_to_drop(df, numeric_df))
              IN  IF ~(TARGET \in Range(kept.columns)) THEN Raise("KeyError")
                  ELSE [exc |-> "none",
                        df  |-> [kept EXCEPT !.rows =
                                   SelectSeq(kept.rows,
                                             LAMBDA r : InRange(r[TARGET]))]]

-----------------------------------------------------------------------------
(* Correlation with the target: data.corr()[TARGET], line 60 and line 64    *)

Undefined == [def |-> FALSE, sgn |-> 0, num |-> 0, den |-> 1]

\* Pearson coefficient of column c with the target over the rows where both
\* are present (pairwise-complete, min_periods = 1); NaN when no row is left
\* or either variance is zero.  r = cov / sqrt(vx * vy), kept as sgn, r^2.
Pearson(d, c) ==
    LET p   == SelectSeq(d.rows,
                         LAMBDA r : r[c].k = "num" /\ r[TARGET].k = "num")
        x   == [i \in DOMAIN p |-> p[i][c].v]
        y   == [i \in DOMAIN p |-> p[i][TARGET].v]
        n   == Len(p)
        cov == n * Dot(x, y) - SumSeq(x) * SumSeq(y)
        vx  == n * Dot(x, x) - SumSeq(x) * SumSeq(x)
        vy  == n * Dot(y, y) - SumSeq(y) * SumSeq(y)
    IN  IF n = 0 \/ vx = 0 \/ vy = 0 THEN Undefined
        ELSE [def |-> TRUE, sgn |-> Sign(cov), num |-> cov * cov, den |-> vx * vy]

\* a/b < c/d for a, c >= 0 and b, d > 0, by continued fractions (no products)
RECURSIVE FracLess(_, _, _, _)
FracLess(a, b, c, d) ==
    IF a \div b # c \div d THEN a \div b < c \div d
    ELSE IF c % d = 0 THEN FALSE
    ELSE IF a % b = 0 THEN TRUE
    ELSE FracLess(d, c % d, b, a % b)

\* |a| < |b| and a < b for defined coefficients
AbsLess(a, b) == FracLess(a.num, a.den, b.num, b.den)

ValLess(a, b) ==
    IF a.sgn # b.sgn THEN a.sgn < b.sgn
    ELSE IF a.sgn = 1 THEN AbsLess(a, b)
    ELSE IF a.sgn = -1 THEN AbsLess(b, a)
    ELSE FALSE

\* the column TARGET of the correlation matrix, in the frame's column order
corr_target(d) ==
    [i \in DOMAIN d.columns |->
        [name |-> d.columns[i], coef |-> Pearson(d, d.columns[i])]]

\* mutant: sort_values with ascending=True left at its default
sort_values_asc(s, t) ==
    LET defd == {i \in DOMAIN s : s[i].coef.def}
        nans == {i \in DOMAIN s : ~s[i].coef.def}
        Before(i, j) ==
            \/ ValLess(s[i].coef, s[j].coef)
            \/ /\ ~ValLess(s[j].coef, s[i].coef)
               /\ t[i] < t[j]
        rank(i) ==
            IF i \in defd
            THEN 1 + Cardinality({j \in defd : Before(j, i)})
            ELSE Cardinality(defd) + Cardinality({j \in nans : j <= i})
    IN  [r \in DOMAIN s |-> s[CHOOSE i \in DOMAIN s : rank(i) = r]]

\* Series.sort_values(ascending=False): kind='quicksort', na_position='last'.
\* Defined values in descending order, then the NaN entries in their input
\* order.  quicksort is not stable: equal values come out in an order the
\* build decides, modelled by the priority t[i] of input position i.
sort_values(s, t) ==
    LET defd == {i \in DOMAIN s : s[i].coef.def}
        nans == {i \in DOMAIN s : ~s[i].coef.def}
        Before(i, j) ==
            \/ ValLess(s[j].coef, s[i].coef)
            \/ /\ ~ValLess(s[i].coef, s[j].coef)
               /\ t[i] < t[j]
        rank(i) ==
            IF i \in defd
            THEN 1 + Cardinality({j \in defd : Before(j, i)})
            ELSE Cardinality(defd) + Cardinality({j \in nans : j <= i})
    IN  [r \in DOMAIN s |-> s[CHOOSE i \in DOMAIN s : rank(i) = r]]

\* Series.abs()
abs(s) ==
    [i \in DOMAIN s |->
        [s[i] EXCEPT !.coef = [s[i].coef EXCEPT !.sgn = Abs(s[i].coef.sgn)]]]

\* mutant: line 68 left out
drop_label_none(s, label) == s

\* Series.drop(label), line 68
drop_label(s, label) == SelectSeq(s, LAMBDA e : e.name # label)

\* fat_corr[label], line 72
lookup(s, label) == (CHOOSE i \in DOMAIN s : s[i].name = label)

\* line 64: the target's column of the matrix sorted by signed value
ranker_signed(d, t) == sort_values(corr_target(d), t)

\* mutant: line 65 without .abs(): the signed values sorted again
ranker_abs_signed(d, t) ==
    drop_label(sort_values(ranker_signed(d, t), t), TARGET)

\* lines 65-68: the absolute values of fat_corr sorted again, then the
\* target's own entry removed
ranker_abs(d, t) == drop_label(sort_values(abs(ranker_signed(d, t)), t), TARGET)

-----------------------------------------------------------------------------
(* The page: lines 52-119                                                  *)

\* mutant: line 17 left out: every call runs load_data
cache_never(c, path) == FALSE

\* st.cache_data, line 17: the call is served from the cache when the path
\* has an entry
cache_hit(c, path) == path \in DOMAIN c

\* the outcome of one run of the script given what load_data gave
Page(res, t) ==
    LET blank == [outcome |-> "Unexpected", shown |-> {"error_unexpected"},
                  fat_corr |-> <<>>, fat_corr_abs |-> <<>>, highest |-> <<>>]
    IN
    IF res.exc = "FileNotFoundError"
    THEN [blank EXCEPT !.outcome = "FileNotFound", !.shown = {"error_file"}]
    ELSE IF res.exc # "none" THEN blank
    ELSE IF ~(TARGET \in Range(res.df.columns))
    THEN [blank EXCEPT !.outcome = "TargetColumnMissing",
                       !.shown = {"success", "error_target_missing", "columns"}]
    ELSE LET fc  == ranker_signed(res.df, t)
             fca == ranker_abs(res.df, t)
         IN  IF fca # <<>>
             THEN [outcome      |-> "Analysed",
                   shown        |-> {"success", "info", "ranking", "scatter",
                                     "heatmap"},
                   fat_corr     |-> fc,
                   fat_corr_abs |-> fca,
                   highest      |-> <<[feature |-> fca[1].name,
                                      value   |-> fc[lookup(fc, fca[1].name)].coef]>>]
             ELSE [outcome      |-> "InsufficientFeatures",
                   shown        |-> {"success", "error_insufficient"},
                   fat_corr     |-> fc,
                   fat_corr_abs |-> fca,
                   highest      |-> <<>>]

-----------------------------------------------------------------------------
(* Input files                                                             *)

\* a column of n cells by its shape
Column(kind, n) ==
    [i \in 1..n |->
        CASE kind = "ramp"   -> Num(i)
          [] kind = "down"   -> Num(n + 1 - i)
          [] kind = "wobble" -> Num(i + 2 * (i % 2))
          [] kind = "vee"    -> Num(Abs(2 * i - (n + 1)))
          [] kind = "code"   -> Num(i % 2)
          [] kind = "const"  -> Num(1)
          [] kind = "gap"    -> IF i = 2 THEN NaN ELSE Num(i)
          [] kind = "text"   -> Str
          \* target shapes
          [] kind = "miss"   -> IF i = 3 THEN NaN ELSE Num(i)
          [] kind = "out60"  -> IF i = 5 THEN Num(60) ELSE Num(i)
          [] kind = "edge50" -> IF i = n THEN Num(FatHigh) ELSE Num(i)
          [] kind = "zero"   -> Num(i - 1)
          [] kind = "high"   -> Num(FatHigh + i - 1)
          [] kind = "lone"   -> IF i = 1 THEN Num(7) ELSE Num(FatHigh + i)
          [] kind = "few"    -> Num(10 + (i % 3))
          [] kind = "blank"  -> NaN]

FeatureKinds == {"ramp", "down", "wobble", "vee", "code", "const", "gap", "text"}

TargetKinds == {"ramp", "miss", "out60", "edge50", "zero", "high", "lone", "few",
                "blank", "text", "absent"}

\* a measurement file: a text column, a constant round number, the target
\* (unless absent from the header) and two measurements
Measurements(n, tk, wk, gk) ==
    LET cols == [name              |-> Column("text", n),
                 measurement_round |-> Column("const", n),
                 body_fat          |-> Column(IF tk = "absent" THEN "blank" ELSE tk, n),
                 weight            |-> Column(wk, n),
                 grip              |-> Column(gk, n)]
        hdr  == IF tk = "absent"
                THEN <<"name", "measurement_round", "weight", "grip">>
                ELSE <<"name", "measurement_round", "body_fat", "weight", "grip">>
    IN  [kind   |-> "csv",
         header |-> hdr,
         rows   |-> [i \in 1..n |-> [c \in Range(hdr) |-> cols[c][i]]]]

\* a file given column by column
Table(hdr, cols) ==
    [kind   |-> "csv",
     header |-> hdr,
     rows   |-> [i \in DOMAIN cols[hdr[1]] |-> [c \in Range(hdr) |-> cols[c][i]]]]

\* the five-row scenario: body fat 15, 22, missing, 8, 60 and a weight
Scenario5 ==
    Table(<<"body_fat", "weight">>,
          [body_fat |-> <<Num(15), Num(22), NaN, Num(8), Num(60)>>,
           weight   |-> <<Num(60), Num(70), Num(65), Num(50), Num(90)>>])

\* a file whose only column is the target
TargetOnly(n) == Table(<<"body_fat">>, [body_fat |-> Column("ramp", n)])

RowCounts == (MinUnique - 1)..MaxRows

Files ==
    {Measurements(n, tk, wk, gk) :
        n \in RowCounts, tk \in TargetKinds, wk \in FeatureKinds, gk \in FeatureKinds}
    \cup {TargetOnly(n) : n \in RowCounts}
    \cup {Scenario5, [kind |-> "absent"], [kind |-> "malformed"]}

\* the tie orders a build's sort may have: a priority per input position (a
\* Cleaned table of Files has at most the target and two measurements)
TieOrders == Permutations(1..3)

-----------------------------------------------------------------------------
(* State machine                                                           *)

Init ==
    /\ file \in Files
    /\ tie \in TieOrders
    /\ cache = <<>>
    /\ data = <<>>
    /\ outcome = "idle"
    /\ shown = {}
    /\ fat_corr = <<>>
    /\ fat_corr_abs = <<>>
    /\ highest = <<>>
    /\ parsed = FALSE
    /\ firstData = <<>>
    /\ firstRanking = <<>>

\* one run of the script, lines 47-123: load_data through the cache, then
\* the ranking and what the page shows
PageLoad ==
    LET hit == cache_hit(cache, file_name)
        res == IF hit THEN [exc |-> "none", df |-> cache[file_name]]
               ELSE load_data(file)
        pg  == Page(res, tie)
    IN  /\ parsed' = ~hit
        /\ cache' = IF ~hit /\ res.exc = "none"
                    THEN [p \in {file_name} |-> res.df] ELSE cache
        /\ data' = IF res.exc = "none" THEN <<res.df>> ELSE <<>>
        /\ outcome' = pg.outcome
        /\ shown' = pg.shown
        /\ fat_corr' = pg.fat_corr
        /\ fat_corr_abs' = pg.fat_corr_abs
        /\ highest' = pg.highest
        /\ firstData' = IF firstData = <<>> /\ res.exc = "none"
                        THEN <<res.df>> ELSE firstData
        /\ firstRanking' = IF firstData = <<>> /\ res.exc = "none"
                           THEN <<pg.fat_corr_abs>> ELSE firstRanking
        /\ UNCHANGED <<file, tie>>

Next == PageLoad

Spec == Init /\ [][Next]_vars

-----------------------------------------------------------------------------
(* The page reloaded while the file on disk is rewritten                   *)

CacheFiles ==
    {Measurements(MaxRows, tk, "ramp", gk) :
        tk \in {"ramp", "miss", "out60", "few", "absent"}, gk \in {"down", "code"}}
    \cup {Scenario5, [kind |-> "absent"]}

InitCache == Init /\ file \in CacheFiles

\* the environment replaces the file under the fixed path
ChangeFile ==
    /\ \E f \in CacheFiles \ {file} : file' = f
    /\ UNCHANGED <<tie, cache, data, outcome, shown, fat_corr, fat_corr_abs,
                   highest, parsed, firstData, firstRanking>>

NextCache == PageLoad \/ ChangeFile

SpecCache == InitCache /\ [][NextCache]_vars

-----------------------------------------------------------------------------
(* Properties                                                              *)

Loaded == data # <<>>

Cols == Range(data[1].columns)

Rows == data[1].rows

Pos(seq, x) == CHOOSE i \in DOMAIN seq : seq[i] = x

\* the distinct values of column c of the file over the rows whose target is
\* present
DistinctInFile(c) ==
    Cardinality({file.rows[i][c] :
                   i \in {j \in DOMAIN file.rows : file.rows[j][TARGET].k # "nan"}})

NumericInFile(c) == \A i \in DOMAIN file.rows : file.rows[i][c].k # "str"

TieAbs(a, b) == a.def /\ b.def /\ ~AbsLess(a, b) /\ ~AbsLess(b, a)

\* C1: whenever load_data returns, every column of the Cleaned table is
\* numeric, the target column is among them, and every target value is
\* strictly between 0 and 50.
C1_CleanedNumericInRange ==
    Loaded =>
        /\ \A c \in Cols :
              /\ data[1].dtypes[c] = "number"
              /\ \A i \in DOMAIN Rows : Rows[i][c].k \in {"num", "nan"}
        /\ TARGET \in Cols
        /\ \A i \in DOMAIN Rows :
              /\ Rows[i][TARGET].k = "num"
              /\ Rows[i][TARGET].v > 0
              /\ Rows[i][TARGET].v < 50

\* load_data returned a table that lost a text column and some rows
C1_Witness ==
    /\ Loaded
    /\ file.kind = "csv"
    /\ "name" \in Range(file.header)
    /\ ~("name" \in Cols)
    /\ Len(Rows) > 0
    /\ Len(Rows) < Len(file.rows)

\* C2: for the five-row input (body fat 15, 22, missing, 8, 60; weight 60, 70,
\* 65, 50, 90) load_data returns three rows, body fat 15, 22, 8 and weight
\* 60, 70, 50: the target is kept although it has fewer than 10 distinct
\* values.
C2_Scenario ==
    (file = Scenario5 /\ outcome # "idle") =>
        /\ Loaded
        /\ data[1].columns = <<"body_fat", "weight">>
        /\ [i \in DOMAIN Rows |-> Rows[i]["body_fat"]] = <<Num(15), Num(22), Num(8)>>
        /\ [i \in DOMAIN Rows |-> Rows[i]["weight"]] = <<Num(60), Num(70), Num(50)>>

\* C3: of the numeric columns of the input, load_data keeps exactly those
\* named age, height or weight and those with at least 10 distinct values
\* over the rows whose target is present; every other one is dropped.
C3_LowCardinalityDropped ==
    (Loaded /\ file.kind = "csv") =>
        \A c \in Range(file.header) :
            NumericInFile(c) =>
                ((c \in Cols) <=>
                    (c \in {"age", "height", "weight"} \/ DistinctInFile(c) >= 10))

\* a two-valued weight is kept, the constant round number and a two-valued
\* grip code are dropped
C3_Witness ==
    /\ Loaded
    /\ file.kind = "csv"
    /\ "weight" \in Cols
    /\ DistinctInFile("weight") = 2
    /\ "grip" \in Range(file.header)
    /\ NumericInFile("grip")
    /\ DistinctInFile("grip") = 2
    /\ ~("grip" \in Cols)
    /\ ~("measurement_round" \in Cols)

\* C4: when the input header has no target column, the page load ends in the
\* TargetColumnMissing outcome.
C4_TargetMissingSignalled ==
    (file.kind = "csv" /\ ~(TARGET \in Range(file.header)) /\ outcome # "idle")
        => outcome = "TargetColumnMissing"

\* C5: when load_data returns, the Ranking does not hold the target, its
\* length is the number of columns of the Cleaned table minus one, it is
\* empty exactly when the target is the only column, and InsufficientFeatures
\* is signalled in that case and in no other.
C5_RankingLength ==
    /\ Loaded =>
          /\ \A i \in DOMAIN fat_corr_abs : fat_corr_abs[i].name # TARGET
          /\ Len(fat_corr_abs) = Len(data[1].columns) - 1
          /\ {fat_corr_abs[i].name : i \in DOMAIN fat_corr_abs} = Cols \ {TARGET}
          /\ (fat_corr_abs = <<>>) <=> (data[1].columns = <<TARGET>>)
          /\ (outcome = "InsufficientFeatures") <=> (fat_corr_abs = <<>>)
    /\ outcome = "InsufficientFeatures" => Loaded

\* the target is the only column left of a file with several columns
C5_Witness ==
    /\ outcome = "InsufficientFeatures"
    /\ Loaded
    /\ data[1].columns = <<TARGET>>
    /\ Len(file.header) > 1

\* C6: along the Ranking the absolute coefficient with the target does not
\* increase, and a column whose coefficient is undefined comes after every
\* column whose coefficient is defined.
C6_RankingSorted ==
    Loaded =>
        \A i \in DOMAIN fat_corr_abs : \A j \in DOMAIN fat_corr_abs :
            i < j =>
                LET a == Pearson(data[1], fat_corr_abs[i].name)
                    b == Pearson(data[1], fat_corr_abs[j].name)
                IN  /\ (a.def /\ b.def) => ~AbsLess(a, b)
                    /\ ~a.def => ~b.def

\* a strong negative correlate ranked ahead of a weaker positive one
C6_Witness ==
    /\ outcome = "Analysed"
    /\ Len(fat_corr_abs) = 2
    /\ LET a == Pearson(data[1], fat_corr_abs[1].name)
           b == Pearson(data[1], fat_corr_abs[2].name)
       IN  a.def /\ b.def /\ a.sgn = -1 /\ b.sgn = 1 /\ AbsLess(b, a)

\* C7: once load_data has returned, every later call with the same path is
\* served from the cache without reading the file and returns the table of
\* the first call, and the Ranking of the same table is the same again.
C7_Idempotent ==
    [][(PageLoad /\ firstData # <<>>) =>
          /\ ~parsed'
          /\ data' = firstData
          /\ <<fat_corr_abs'>> = firstRanking]_vars

\* a reload served from the cache although the file now cleans differently
C7_Witness ==
    /\ firstData # <<>>
    /\ ~parsed
    /\ data = firstData
    /\ <<fat_corr_abs>> = firstRanking
    /\ load_data(file) # [exc |-> "none", df |-> data[1]]

\* C8 as stated: columns of equal absolute coefficient appear in the Ranking
\* in the order of their columns in the Cleaned table.
C8_StableTies ==
    Loaded =>
        \A i \in DOMAIN fat_corr_abs : \A j \in DOMAIN fat_corr_abs :
            (i < j /\ TieAbs(Pearson(data[1], fat_corr_abs[i].name),
                             Pearson(data[1], fat_corr_abs[j].name)))
                => Pos(data[1].columns, fat_corr_abs[i].name)
                     < Pos(data[1].columns, fat_corr_abs[j].name)

\* C8 amended: the strongest correlate reported is a column of the largest
\* absolute coefficient, with its signed coefficient, whichever of several
\* tied columns it is; columns of equal absolute coefficient are adjacent in
\* the Ranking.
C8_TopIsMaximal ==
    outcome = "Analysed" =>
        /\ highest[1].feature = fat_corr_abs[1].name
        /\ highest[1].value = Pearson(data[1], highest[1].feature)
        /\ \A c \in Cols \ {TARGET} :
              LET pc == Pearson(data[1], c)
              IN  pc.def => /\ highest[1].value.def
                            /\ ~AbsLess(highest[1].value, pc)
        /\ \A i \in DOMAIN fat_corr_abs : \A j \in DOMAIN fat_corr_abs :
              (i < j /\ TieAbs(fat_corr_abs[i].coef, fat_corr_abs[j].coef))
                 => \A k \in i..j : TieAbs(fat_corr_abs[i].coef, fat_corr_abs[k].coef)

\* two tied columns, the later one of the table reported as strongest
C8_Witness ==
    /\ outcome = "Analysed"
    /\ Len(fat_corr_abs) = 2
    /\ TieAbs(fat_corr_abs[1].coef, fat_corr_abs[2].coef)
    /\ Pos(data[1].columns, fat_corr_abs[1].name)
         > Pos(data[1].columns, fat_corr_abs[2].name)
    /\ highest[1].value.sgn = 1

\* C9: when cleaning leaves no row, the page does not report a strongest
\* correlate nor draw the scatter plot and the heatmap.
C9_EmptyDetected ==
    (Loaded /\ Rows = <<>>) =>
        /\ ~("info" \in shown)
        /\ ~("scatter" \in shown)
        /\ ~("heatmap" \in shown)

\* C10 as stated: no numeric column of the Cleaned table has a missing value.
C10_NoMissingAnywhere ==
    Loaded => \A c \in Cols : \A i \in DOMAIN Rows : Rows[i][c].k # "nan"

\* C10 amended: the Cleaned table holds, in order, exactly the input rows
\* whose target is present and strictly between 0 and 50, with the cells of
\* the kept columns as they are in the file: the target has no missing
\* value, another column keeps its missing values.
C10_OnlyTargetComplete ==
    (Loaded /\ file.kind = "csv") =>
        LET keep == SelectSeq(file.rows,
                              LAMBDA r : /\ r[TARGET].k = "num"
                                         /\ r[TARGET].v > 0
                                         /\ r[TARGET].v < 50)
        IN  /\ Rows = [i \in DOMAIN keep |-> [c \in Cols |-> keep[i][c]]]
            /\ \A i \in DOMAIN Rows : Rows[i][TARGET].k # "nan"

\* a Cleaned table with a missing weight
C10_Witness ==
    /\ Loaded
    /\ "weight" \in Cols
    /\ \E i \in DOMAIN Rows : Rows[i]["weight"].k = "nan"
====
